---- MODULE Spec2Model ----
(***************************************************************************)
(* Lifecycle of the aws_ami resource (aws/resource_aws_ami.go): Create,    *)
(* Read, Update and Delete against the EC2 image API, with the two waits   *)
(* built on AMIStateRefreshFunc.  Every remote call is one step, so the    *)
(* remote side may change between two calls of the same operation.         *)
(***************************************************************************)
EXTENDS Integers, Sequences, FiniteSets, TLC

\* ------------------------------------------------------------------ bounds
\* probes a wait issues before its timeout elapses
MaxPolls == 2
\* describe attempts resource.Retry makes before its one minute elapses
MaxRetries == 2
\* largest number of ebs_block_device entries in a configuration
MaxEbs == 2

\* ------------------------------------------------------- values of the model
ImageId == "ami-1"
Partition == "aws"
Region == "r1"

Descriptions == {"", "a"}
TagSets == { {}, {<<"env", "dev">>}, {<<"env", "prod">>, <<"team", "x">>} }

\* volume size the remote system stores when the request carries none
DefaultVolumeSize == 8

EbsChoices ==
  { [device_name |-> "sda", snapshot_id |-> "s1", encrypted |-> FALSE, iops |-> 0,   volume_size |-> 8],
    [device_name |-> "sdb", snapshot_id |-> "s2", encrypted |-> FALSE, iops |-> 100, volume_size |-> 0],
    [device_name |-> "sdc", snapshot_id |-> "",   encrypted |-> TRUE,  iops |-> 0,   volume_size |-> 4],
    [device_name |-> "sdd", snapshot_id |-> "s3", encrypted |-> TRUE,  iops |-> 0,   volume_size |-> 8] }

EbsSets == { S \in SUBSET EbsChoices : Cardinality(S) <= MaxEbs }

EphemeralSets == { {}, {[device_name |-> "sde", virtual_name |-> "ephemeral0"]} }

\* ec2.ImageState values the model uses, plus "none" for an image that does not exist
ImageStates == {"none", "pending", "available", "failed", "deregistered"}

\* how the remote API answers DescribeImages
\*   ok        the image when it exists, InvalidAMIID.NotFound when it does not
\*   empty     the image when it exists, a successful empty list when it does not
\*   lag       InvalidAMIID.NotFound while the image is still pending (read-after-write lag)
\*   err_nil   an error other than not-found, with a nil output
\*   err_empty an error other than not-found, with a non-nil output holding no image
ApiModes == {"ok", "empty", "lag", "err_nil", "err_empty"}

VARIABLES
  cfg,      \* DesiredConfig: values d.Get returns for configured attributes
  d,        \* tracked state of the resource (schema.ResourceData): id, attributes
  image,    \* the image as the remote system stores it
  snaps,    \* snapshot ids the remote system still holds
  api,      \* how the remote API currently answers DescribeImages
  op,       \* operation running, or the last one that ran
  pc,       \* position inside the operation; "idle" between operations
  n,        \* probes (or retries) issued by the wait (or retry) in progress
  req,      \* block device mappings of the last RegisterImage request
  todo,     \* ebs entries the snapshot loop of Delete has not visited yet
  errs,     \* snapshot ids whose deletion failed in the running Delete
  calls,    \* remote calls issued by the operation, in order
  result,   \* what the last operation returned
  hist      \* outcome of the previous Read and whether the remote side moved since

vars == <<cfg, d, image, snaps, api, op, pc, n, req, todo, errs, calls, result, hist>>

\* ------------------------------------------------------------------ results
NoError == [err |-> "none", status |-> "", ids |-> {}]
Error(kind) == [err |-> kind, status |-> "", ids |-> {}]
StatusError(kind, s) == [err |-> kind, status |-> s, ids |-> {}]

\* a remote call in the log: its name, the id or value it carries, whether it succeeded
Call(name, ok) == [call |-> name, arg |-> "", ok |-> ok]
CallOn(name, a, ok) == [call |-> name, arg |-> a, ok |-> ok]

NoImage == [state |-> "none", description |-> "", tags |-> {}, mappings |-> {}]

\* ---------------------------------------------------------- State Translator
\* an optional field of a request or of an image record: {} when nil, {v} when set
Nil == {}
Some(v) == {v}
Deref(o) == CHOOSE v \in o : TRUE

\* iops and volume_size are sent as they are declared, zero included
EbsToMappingExplicitZero(e) ==
  [ DeviceName  |-> e.device_name,
    HasEbs      |-> TRUE,
    Iops        |-> Some(e.iops),
    VolumeSize  |-> Some(e.volume_size),
    SnapshotId  |-> IF e.snapshot_id # "" THEN Some(e.snapshot_id) ELSE Nil,
    Encrypted   |-> IF e.snapshot_id = "" /\ e.encrypted THEN Some(TRUE) ELSE Nil,
    VirtualName |-> Nil ]

\* the check sits in the branch of an empty snapshot id
ConfigInvalidElseBranch(c) ==
  \E e \in c.ebs : e.snapshot_id = "" /\ e.encrypted

\* the loop of resourceAwsAmiCreate returns this error at the first entry that
\* has both a snapshot id and encrypted
ConfigInvalid(c) ==
  \E e \in c.ebs : e.snapshot_id # "" /\ e.encrypted

EbsToMapping(e) ==
  [ DeviceName  |-> e.device_name,
    HasEbs      |-> TRUE,
    Iops        |-> IF e.iops # 0 THEN Some(e.iops) ELSE Nil,
    VolumeSize  |-> IF e.volume_size # 0 THEN Some(e.volume_size) ELSE Nil,
    SnapshotId  |-> IF e.snapshot_id # "" THEN Some(e.snapshot_id) ELSE Nil,
    Encrypted   |-> IF e.snapshot_id = "" /\ e.encrypted THEN Some(TRUE) ELSE Nil,
    VirtualName |-> Nil ]

EphemeralToMapping(e) ==
  [ DeviceName  |-> e.device_name,
    HasEbs      |-> FALSE,
    Iops        |-> Nil,
    VolumeSize  |-> Nil,
    SnapshotId  |-> Nil,
    Encrypted   |-> Nil,
    VirtualName |-> Some(e.virtual_name) ]

\* req.BlockDeviceMappings of the RegisterImage request
ToRemoteRequest(c) ==
  { EbsToMapping(e) : e \in c.ebs } \cup { EphemeralToMapping(e) : e \in c.ephemeral }

\* what the remote system stores for a requested mapping: an ebs mapping always
\* carries Encrypted and VolumeSize afterwards
StoredMapping(m) ==
  IF m.HasEbs
    THEN [ m EXCEPT !.Encrypted  = IF m.Encrypted = Nil THEN Some(FALSE) ELSE m.Encrypted,
                    !.VolumeSize = IF m.VolumeSize = Nil THEN Some(DefaultVolumeSize) ELSE m.VolumeSize ]
    ELSE m

\* the inbound path of resourceAwsAmiRead for one ebs mapping
MappingToEbs(m) ==
  [ device_name |-> m.DeviceName,
    encrypted   |-> Deref(m.Encrypted),
    iops        |-> IF m.Iops # Nil THEN Deref(m.Iops) ELSE 0,
    volume_size |-> Deref(m.VolumeSize),
    snapshot_id |-> IF m.SnapshotId # Nil THEN Deref(m.SnapshotId) ELSE "" ]

MappingToEphemeral(m) ==
  [ device_name |-> m.DeviceName, virtual_name |-> Deref(m.VirtualName) ]

\* arn.ARN{...}.String() for Resource "image/<id>"
ImageArn(id) == <<"arn", Partition, "ec2", Region, "image", id>>

\* keyvaluetags ... IgnoreAws(): tags whose key starts with "aws:" are dropped
IsAwsTag(t) == t[1] = "aws:x"
IgnoreAws(tags) == { t \in tags : ~IsAwsTag(t) }

\* the tags are recorded as the difference to the tags tracked before
ReadPopulateTagDiff(dd, img) ==
  [ dd EXCEPT !.description = img.description,
              !.arn         = ImageArn(dd.id),
              !.ebs         = { MappingToEbs(m) : m \in { x \in img.mappings : x.HasEbs } },
              !.ephemeral   = { MappingToEphemeral(m) : m \in { x \in img.mappings : ~x.HasEbs } },
              !.tags        = IgnoreAws(img.tags) \ dd.tags ]

\* the d.Set calls of resourceAwsAmiRead
ReadPopulate(dd, img) ==
  [ dd EXCEPT !.description = img.description,
              !.arn         = ImageArn(dd.id),
              !.ebs         = { MappingToEbs(m) : m \in { x \in img.mappings : x.HasEbs } },
              !.ephemeral   = { MappingToEphemeral(m) : m \in { x \in img.mappings : ~x.HasEbs } },
              !.tags        = IgnoreAws(img.tags) ]

\* ------------------------------------------------------------- remote API
\* answer of client.DescribeImages for one image id
DescribeImages(id) ==
  LET found == [err |-> "none", nilresp |-> FALSE, images |-> <<image>>]
      notFound == [err |-> "NotFound", nilresp |-> FALSE, images |-> <<>>]
      exists == id = ImageId /\ image.state # "none"
  IN CASE api = "err_nil"   -> [err |-> "Other", nilresp |-> TRUE, images |-> <<>>]
       [] api = "err_empty" -> [err |-> "Other", nilresp |-> FALSE, images |-> <<>>]
       [] api = "lag"       -> IF exists /\ image.state # "pending" THEN found ELSE notFound
       [] api = "empty"     -> IF exists THEN found
                               ELSE [err |-> "none", nilresp |-> FALSE, images |-> <<>>]
       [] OTHER             -> IF exists THEN found ELSE notFound

\* ---------------------------------------------------------------- the waits
\* the closure AMIStateRefreshFunc returns, applied to one DescribeImages answer
AMIStateRefreshFunc(resp) ==
  IF resp.err # "none"
    THEN IF resp.err = "NotFound"
           THEN [res |-> NoImage, state |-> "destroyed", err |-> FALSE]
           ELSE IF ~resp.nilresp /\ Len(resp.images) = 0
             THEN [res |-> NoImage, state |-> "destroyed", err |-> FALSE]
             ELSE [res |-> NoImage, state |-> "", err |-> TRUE]
    ELSE IF resp.nilresp \/ Len(resp.images) = 0
      THEN [res |-> NoImage, state |-> "destroyed", err |-> FALSE]
      ELSE [res |-> resp.images[1], state |-> resp.images[1].state, err |-> FALSE]

\* a failed image is waited for like a pending one
AvailablePendingWithFailed == {"pending", "failed"}

AvailablePending == {"pending"}
AvailableTarget == {"available"}
\* a failed image is not among the states the destroyed-wait waits through
DestroyPendingWithoutFailed == {"available", "pending"}

DestroyPending == {"available", "pending", "failed"}
DestroyTarget == {"destroyed"}

\* one round of StateChangeConf.WaitForState on a refresh result r, the k-th probe
\* of the wait: "done", "again", or the error the wait returns
WaitForState(r, pending, target, k) ==
  IF r.err THEN [next |-> "error", result |-> Error("refresh")]
  ELSE IF r.state \in target THEN [next |-> "done", result |-> NoError]
  ELSE IF r.state \in pending
    THEN IF k >= MaxPolls
           THEN [next |-> "error", result |-> StatusError("timeout", r.state)]
           ELSE [next |-> "again", result |-> NoError]
    ELSE [next |-> "error", result |-> StatusError("unexpected", r.state)]

\* ------------------------------------------------------------ initial state
AllSnapshots == {"s1", "s2", "s3"}

NoHistory(via) ==
  [ via |-> via, seq |-> 0, moved |-> FALSE, twice |-> FALSE,
    last |-> <<>>, prev |-> <<>> ]

EmptyData ==
  [ id |-> "", isNew |-> FALSE, manage |-> FALSE, description |-> "", tags |-> {},
    ebs |-> {}, ephemeral |-> {}, arn |-> <<>> ]

\* the configurations explored: every description and tag set without block
\* devices, and every block device collection under one description and no tags
Configs ==
  { c \in [ description : Descriptions, tags : TagSets, ebs : EbsSets,
            ephemeral : EphemeralSets ] :
      \/ c.ebs = {} /\ c.ephemeral = {}
      \/ c.description = "a" /\ c.tags = {} }

\* an image as RegisterImage (or the copy made by aws_ami_copy) leaves it
RegisteredImage(c, st) ==
  [ state |-> st, description |-> c.description, tags |-> {},
    mappings |-> { StoredMapping(m) : m \in ToRemoteRequest(c) } ]

\* Either nothing exists yet and aws_ami will create the image, or the image was
\* created by aws_ami_copy / aws_ami_from_instance, which share Read, Update and
\* Delete and are the only ones to set manage_ebs_snapshots.
Init ==
  /\ cfg \in Configs
  /\ snaps = AllSnapshots
  /\ api = "ok"
  /\ op = "none" /\ pc = "idle" /\ n = 0 /\ req = {} /\ todo = {} /\ errs = {}
  /\ calls = <<>> /\ result = NoError
  /\ \/ /\ image = NoImage
        /\ d = EmptyData
        /\ hist = NoHistory("register")
     \/ /\ ~ConfigInvalid(cfg)
        /\ image = [ RegisteredImage(cfg, "available") EXCEPT
                       !.tags = cfg.tags \cup {<<"aws:x", "1">>} ]
        /\ \E m \in BOOLEAN :
             d = ReadPopulate([EmptyData EXCEPT !.id = ImageId, !.manage = m], image)
        /\ hist = NoHistory("copy")

\* --------------------------------------------------------------- bookkeeping
\* an operation other than Read starts: the next Read is not a repeated one
Forget(h) == NoHistory(h.via)

\* the remote side changed: a Read in progress or done is not followed by a repeat
Moved(h) == [NoHistory(h.via) EXCEPT !.moved = TRUE]

\* the identifier is not recorded when RegisterImage returns
SetIdAfterRegisterLate(dd, id) == dd

\* d.SetId(id) right after RegisterImage returned
SetIdAfterRegister(dd, id) == [dd EXCEPT !.id = id]

\* d.SetId("")
ClearId(dd) == [dd EXCEPT !.id = ""]

\* ------------------------------------------------------------------- Create
\* resourceAwsAmiCreate up to the RegisterImage call: the request is built, and
\* the ebs loop may return the configuration error
StartCreate ==
  /\ pc = "idle" /\ d.id = "" /\ image.state = "none" /\ hist.via = "register"
  /\ op' = "create" /\ calls' = <<>> /\ n' = 0
  /\ todo' = {} /\ errs' = {}
  /\ d' = [d EXCEPT !.isNew = TRUE]
  /\ hist' = Forget(hist)
  /\ IF ConfigInvalid(cfg)
       THEN pc' = "idle" /\ result' = Error("config") /\ req' = {}
       ELSE pc' = "register" /\ result' = NoError /\ req' = ToRemoteRequest(cfg)
  /\ UNCHANGED <<cfg, image, snaps, api>>

\* tags are applied although none are declared
AfterRegisterAlwaysTags(c) == "ctags"

\* where resourceAwsAmiCreate goes once the identifier is recorded: tag
\* application when tags are declared, else the available-wait
AfterRegister(c) == IF c.tags # {} THEN "ctags" ELSE "cwait"

\* client.RegisterImage(req), then d.SetId
RegisterImage ==
  /\ pc = "register"
  /\ \/ /\ calls' = Append(calls, Call("RegisterImage", FALSE))
        /\ pc' = "idle" /\ result' = Error("register")
        /\ UNCHANGED <<d, image, hist>>
     \/ /\ calls' = Append(calls, Call("RegisterImage", TRUE))
        /\ image' = [ state |-> "pending", description |-> cfg.description, tags |-> {},
                      mappings |-> { StoredMapping(m) : m \in req } ]
        /\ d' = SetIdAfterRegister(d, ImageId)
        /\ pc' = AfterRegister(cfg)
        /\ hist' = Moved(hist)
        /\ UNCHANGED result
  /\ UNCHANGED <<cfg, snaps, api, op, n, req, todo, errs>>

\* keyvaluetags.Ec2CreateTags(client, id, v)
CreateTags ==
  /\ pc = "ctags"
  /\ \/ /\ calls' = Append(calls, Call("CreateTags", FALSE))
        /\ pc' = "idle" /\ result' = Error("tags")
        /\ UNCHANGED <<image, hist>>
     \/ /\ image.state # "none"
        /\ calls' = Append(calls, Call("CreateTags", TRUE))
        /\ image' = [image EXCEPT !.tags = cfg.tags]
        /\ pc' = "cwait"
        /\ hist' = Moved(hist)
        /\ UNCHANGED result
  /\ UNCHANGED <<cfg, d, snaps, api, op, n, req, todo, errs>>

\* --------------------------------------------------------------------- Read
\* a Read (of its own or the one ending Create or Update) returns
ReadReturns(dd, res) ==
  /\ d' = dd /\ result' = res /\ pc' = "idle" /\ n' = 0
  /\ hist' = IF op = "read"
               THEN [ hist EXCEPT !.seq = IF hist.seq < 2 THEN hist.seq + 1 ELSE 2,
                                  !.twice = hist.seq >= 1 /\ ~hist.moved,
                                  !.prev = IF hist.seq >= 1 /\ ~hist.moved THEN hist.last ELSE <<>>,
                                  !.last = <<dd, res>> ]
               ELSE hist

\* a deregistered image is reported as an unexpected state
ReadTailDeregisteredIsError(dd, img) ==
  IF img.state # "available" THEN [d |-> dd, result |-> StatusError("state", img.state)]
  ELSE [d |-> ReadPopulate(dd, img), result |-> NoError]

\* the state of the image is not looked at before the d.Set calls
ReadTailNoStateCheck(dd, img) ==
  IF img.state = "deregistered" THEN [d |-> ClearId(dd), result |-> NoError]
  ELSE [d |-> ReadPopulate(dd, img), result |-> NoError]

\* resourceAwsAmiRead from the image's state on: deregistered, not available, or
\* the d.Set calls
ReadTail(dd, img) ==
  IF img.state = "deregistered" THEN [d |-> ClearId(dd), result |-> NoError]
  ELSE IF img.state # "available" THEN [d |-> dd, result |-> StatusError("state", img.state)]
  ELSE [d |-> ReadPopulate(dd, img), result |-> NoError]

\* resourceAwsAmiRead after a describe that returned no error
ReadAfterDescribe(resp) ==
  IF Len(resp.images) # 1
    THEN ReadReturns(ClearId(d), NoError)
    ELSE IF resp.images[1].state = "pending"
      THEN /\ pc' = "rwait" /\ n' = 0
           /\ UNCHANGED <<d, result, hist>>
      ELSE LET t == ReadTail(d, resp.images[1]) IN ReadReturns(t.d, t.result)

StartRead ==
  /\ pc = "idle" /\ d.id # ""
  /\ ~(op = "delete" /\ result = NoError)
  /\ op' = "read" /\ pc' = "rdesc" /\ calls' = <<>> /\ n' = 0
  /\ todo' = {} /\ errs' = {} /\ result' = NoError
  /\ d' = [d EXCEPT !.isNew = FALSE]
  /\ hist' = IF op = "read" /\ ~hist.moved THEN hist ELSE Forget(hist)
  /\ UNCHANGED <<cfg, image, snaps, api, req>>

\* one run of the closure resource.Retry calls in resourceAwsAmiRead
ReadDescribe ==
  /\ pc = "rdesc"
  /\ calls' = Append(calls, Call("DescribeImages", DescribeImages(d.id).err = "none"))
  /\ LET resp == DescribeImages(d.id) IN
       IF resp.err = "NotFound"
         THEN IF d.isNew
                THEN /\ IF n + 1 >= MaxRetries
                          THEN pc' = "rfinal" /\ n' = 0
                          ELSE pc' = pc /\ n' = n + 1
                     /\ UNCHANGED <<d, result, hist>>
                ELSE ReadReturns(ClearId(d), NoError)
         ELSE IF resp.err # "none"
           THEN ReadReturns(d, Error("describe"))
           ELSE ReadAfterDescribe(resp)
  /\ UNCHANGED <<cfg, image, snaps, api, op, req, todo, errs>>

\* the describe resourceAwsAmiRead issues once resource.Retry timed out
ReadFinalDescribe ==
  /\ pc = "rfinal"
  /\ calls' = Append(calls, Call("DescribeImages", DescribeImages(d.id).err = "none"))
  /\ LET resp == DescribeImages(d.id) IN
       IF resp.err # "none"
         THEN ReadReturns(d, Error("describe"))
         ELSE ReadAfterDescribe(resp)
  /\ UNCHANGED <<cfg, image, snaps, api, op, req, todo, errs>>

\* ------------------------------------------------------- the available-wait
\* resourceAwsAmiWaitForAvailable, one probe: in Create (pc "cwait") or in Read
\* (pc "rwait")
WaitForAvailableProbe ==
  /\ pc \in {"cwait", "rwait"}
  /\ calls' = Append(calls, Call("DescribeImages", DescribeImages(d.id).err = "none"))
  /\ LET r == AMIStateRefreshFunc(DescribeImages(d.id))
         w == WaitForState(r, AvailablePending, AvailableTarget, n + 1)
     IN CASE w.next = "again" ->
               /\ n' = n + 1 /\ pc' = pc
               /\ UNCHANGED <<d, result, hist>>
          [] w.next = "error" ->
               IF pc = "rwait"
                 THEN ReadReturns(d, w.result)
                 ELSE /\ pc' = "idle" /\ result' = w.result /\ n' = 0
                      /\ UNCHANGED <<d, hist>>
          [] OTHER ->
               IF pc = "rwait"
                 THEN LET t == ReadTail(d, r.res) IN ReadReturns(t.d, t.result)
                 ELSE /\ pc' = "rdesc" /\ n' = 0
                      /\ UNCHANGED <<d, result, hist>>
  /\ UNCHANGED <<cfg, image, snaps, api, op, req, todo, errs>>

\* ------------------------------------------------------------------- Update
TagKeys(tags) == { t[1] : t \in tags }

\* keyvaluetags: tags of old whose key new no longer has, and tags of new that old lacks
\* or holds with another value
RemovedTags(old, new) == { t \in old : t[1] \notin TagKeys(new) }
UpdatedTags(old, new) == { t \in new : t \notin old }

\* the tags the remote system holds once keys were removed and tags applied
ApplyTags(cur, removedKeys, updated) ==
  { t \in cur : t[1] \notin removedKeys /\ t[1] \notin TagKeys(updated) } \cup updated

\* d.HasChange("tags")
TagsChanged(dd, c) == dd.tags # c.tags

\* the attribute-modify call is issued whatever the description
AfterTagsAlwaysModify(c) == "umodify"

\* the attribute-modify call is never issued
AfterTagsNeverModify(c) == "rdesc"

\* where resourceAwsAmiUpdate goes once tags are dealt with: the attribute-modify
\* call, or straight to the Read
AfterTags(c) == IF c.description # "" THEN "umodify" ELSE "rdesc"

\* the caller hands in a configuration that differs from the old one at most in
\* description and tags (every other attribute is ForceNew)
StartUpdate ==
  /\ pc = "idle" /\ d.id # ""
  /\ ~(op = "delete" /\ result = NoError)
  /\ \E c \in Configs :
       /\ c.ebs = cfg.ebs /\ c.ephemeral = cfg.ephemeral
       /\ cfg' = c
       /\ pc' = IF TagsChanged(d, c) THEN "utags" ELSE AfterTags(c)
  /\ op' = "update" /\ calls' = <<>> /\ n' = 0
  /\ todo' = {} /\ errs' = {} /\ result' = NoError
  /\ d' = [d EXCEPT !.isNew = FALSE]
  /\ hist' = Forget(hist)
  /\ UNCHANGED <<image, snaps, api, req>>

\* keyvaluetags.Ec2UpdateTags(client, d.Id(), o, n): a remove-call when keys were
\* dropped, then an apply-call when tags were added or changed
UpdateTags ==
  /\ pc = "utags"
  /\ LET removed == RemovedTags(d.tags, cfg.tags)
         updated == UpdatedTags(d.tags, cfg.tags)
         rmCall(ok) == IF removed # {} THEN <<Call("DeleteTags", ok)>> ELSE <<>>
         upCall(ok) == IF updated # {} THEN <<Call("CreateTags", ok)>> ELSE <<>>
     IN \/ /\ removed # {}
           /\ calls' = calls \o rmCall(FALSE)
           /\ pc' = "idle" /\ result' = Error("tags")
           /\ UNCHANGED <<image, hist>>
        \/ /\ updated # {}
           /\ calls' = calls \o rmCall(TRUE) \o upCall(FALSE)
           /\ pc' = "idle" /\ result' = Error("tags")
           /\ image' = IF image.state = "none" THEN image
                       ELSE [image EXCEPT !.tags = ApplyTags(image.tags, TagKeys(removed), {})]
           /\ hist' = Moved(hist)
        \/ /\ image.state # "none"
           /\ calls' = calls \o rmCall(TRUE) \o upCall(TRUE)
           /\ image' = [image EXCEPT !.tags = ApplyTags(image.tags, TagKeys(removed), updated)]
           /\ pc' = AfterTags(cfg)
           /\ hist' = Moved(hist)
           /\ UNCHANGED result
  /\ UNCHANGED <<cfg, d, snaps, api, op, n, req, todo, errs>>

\* client.ModifyImageAttribute with the configured description
ModifyImageAttribute ==
  /\ pc = "umodify"
  /\ \/ /\ calls' = Append(calls, CallOn("ModifyImageAttribute", cfg.description, FALSE))
        /\ pc' = "idle" /\ result' = Error("modify")
        /\ UNCHANGED <<image, hist>>
     \/ /\ image.state # "none"
        /\ calls' = Append(calls, CallOn("ModifyImageAttribute", cfg.description, TRUE))
        /\ image' = [image EXCEPT !.description = cfg.description]
        /\ pc' = "rdesc"
        /\ hist' = Moved(hist)
        /\ UNCHANGED result
  /\ UNCHANGED <<cfg, d, snaps, api, op, n, req, todo, errs>>

\* ------------------------------------------------------------------- Delete
\* the loop calls DeleteSnapshot for every entry, empty snapshot id or not
SnapshotEntriesAll(dd) == dd.ebs

\* the ebs entries for which the loop of resourceAwsAmiDelete calls DeleteSnapshot
SnapshotEntries(dd) == { e \in dd.ebs : e.snapshot_id # "" }

\* the destroyed-wait runs whatever the snapshot loop collected
AfterSnapshotsAlwaysWait(failed) == "dwait"

\* resourceAwsAmiDelete once the snapshot loop has visited every entry: the
\* aggregated error, or on to the destroyed-wait
AfterSnapshots(failed) == IF failed # {} THEN "idle" ELSE "dwait"

PartialFailure(failed) == [err |-> "partial", status |-> "", ids |-> failed]

StartDelete ==
  /\ pc = "idle" /\ d.id # ""
  /\ ~(op = "delete" /\ result = NoError)
  /\ op' = "delete" /\ pc' = "dereg" /\ calls' = <<>> /\ n' = 0
  /\ todo' = {} /\ errs' = {} /\ result' = NoError
  /\ d' = [d EXCEPT !.isNew = FALSE]
  /\ hist' = Forget(hist)
  /\ UNCHANGED <<cfg, image, snaps, api, req>>

\* the snapshots are deleted whatever manage_ebs_snapshots says
ManagesSnapshotsAlways(dd) == TRUE

\* d.Get("manage_ebs_snapshots") as resourceAwsAmiDelete consults it
ManagesSnapshots(dd) == dd.manage

\* the error of DeregisterImage is not returned and Delete goes on to the wait
AfterDeregisterErrorGoesOn == "dwait"

\* where resourceAwsAmiDelete goes when DeregisterImage fails: it returns
AfterDeregisterError == "idle"

\* client.DeregisterImage(req); the image may stay visible for a while after the
\* call was accepted
DeregisterImage ==
  /\ pc = "dereg"
  /\ \/ /\ calls' = Append(calls, Call("DeregisterImage", FALSE))
        /\ pc' = AfterDeregisterError /\ result' = Error("deregister")
        /\ UNCHANGED <<image, hist, todo>>
     \/ /\ image.state \notin {"none", "deregistered"}
        /\ calls' = Append(calls, Call("DeregisterImage", TRUE))
        /\ \E im \in {image, [image EXCEPT !.state = "deregistered"]} : image' = im
        /\ hist' = Moved(hist)
        /\ IF ManagesSnapshots(d)
             THEN IF SnapshotEntries(d) = {}
                    THEN pc' = AfterSnapshots({}) /\ todo' = {}
                    ELSE pc' = "dsnap" /\ todo' = SnapshotEntries(d)
             ELSE pc' = "dwait" /\ todo' = {}
        /\ UNCHANGED result
  /\ UNCHANGED <<cfg, d, snaps, api, op, n, req, errs>>

\* one round of the snapshot loop: client.DeleteSnapshot for the next entry, its
\* error kept in errs; after the last entry the aggregated error, if any
DeleteSnapshot ==
  /\ pc = "dsnap"
  /\ \E e \in todo :
       /\ todo' = todo \ {e}
       /\ \/ /\ calls' = Append(calls, CallOn("DeleteSnapshot", e.snapshot_id, FALSE))
             /\ errs' = errs \cup {e.snapshot_id}
             /\ UNCHANGED snaps
          \/ /\ e.snapshot_id \in snaps
             /\ calls' = Append(calls, CallOn("DeleteSnapshot", e.snapshot_id, TRUE))
             /\ snaps' = snaps \ {e.snapshot_id}
             /\ UNCHANGED errs
       /\ IF todo' = {}
            THEN /\ pc' = AfterSnapshots(errs')
                 /\ result' = IF errs' # {} THEN PartialFailure(errs') ELSE result
            ELSE UNCHANGED <<pc, result>>
  /\ UNCHANGED <<cfg, d, image, api, op, n, req, hist>>

\* resourceAwsAmiWaitForDestroy, one probe
WaitForDestroyProbe ==
  /\ pc = "dwait"
  /\ calls' = Append(calls, Call("DescribeImages", DescribeImages(d.id).err = "none"))
  /\ LET r == AMIStateRefreshFunc(DescribeImages(d.id))
         w == WaitForState(r, DestroyPending, DestroyTarget, n + 1)
     IN CASE w.next = "again" -> n' = n + 1 /\ UNCHANGED <<pc, result>>
          [] w.next = "error" -> n' = 0 /\ pc' = "idle" /\ result' = w.result
          [] OTHER -> n' = 0 /\ pc' = "idle" /\ result' = NoError
  /\ UNCHANGED <<cfg, d, image, snaps, api, op, req, todo, errs, hist>>

\* -------------------------------------------------------------- remote side
\* a pending image becomes available or failed
EnvProvision ==
  /\ image.state = "pending"
  /\ \E s \in {"available", "failed"} : image' = [image EXCEPT !.state = s]
  /\ hist' = Moved(hist)
  /\ UNCHANGED <<cfg, d, snaps, api, op, pc, n, req, todo, errs, calls, result>>

\* an image is deregistered (by Delete's call taking effect, or by someone else)
\* and later disappears from the API
EnvRemove ==
  /\ image.state # "none"
  /\ image' = IF image.state = "deregistered" THEN NoImage
              ELSE [image EXCEPT !.state = "deregistered"]
  /\ hist' = Moved(hist)
  /\ UNCHANGED <<cfg, d, snaps, api, op, pc, n, req, todo, errs, calls, result>>

\* the API starts answering DescribeImages differently
EnvApi ==
  /\ \E a \in ApiModes \ {api} : api' = a
  /\ hist' = Moved(hist)
  /\ UNCHANGED <<cfg, d, image, snaps, op, pc, n, req, todo, errs, calls, result>>

Next ==
  \/ StartCreate \/ RegisterImage \/ CreateTags
  \/ StartRead \/ ReadDescribe \/ ReadFinalDescribe
  \/ WaitForAvailableProbe
  \/ StartUpdate \/ UpdateTags \/ ModifyImageAttribute
  \/ StartDelete \/ DeregisterImage \/ DeleteSnapshot \/ WaitForDestroyProbe
  \/ EnvProvision \/ EnvRemove \/ EnvApi

Spec == Init /\ [][Next]_vars

\* =================================================================== claims
Returned(o) == pc = "idle" /\ op = o
CallNames == { calls[i].call : i \in DOMAIN calls }
Issued(name) == name \in CallNames
\* the step issues a remote call
CallStep == Len(calls') > Len(calls)
\* a DescribeImages answer that reports the image as not present
ReportsAbsent(resp) ==
  \/ resp.err = "NotFound"
  \/ resp.err = "none" /\ Len(resp.images) = 0
ImageGone == image.state \in {"none", "deregistered"}

\* C1: Delete returns success only when the remote system no longer reports the
\* image as present: the probe on which the destroyed-wait ends successfully was
\* answered with not-found or with an empty list, never with an error other than
\* not-found.
C1_DeleteSuccessOnlyWhenAbsent ==
  [][ (pc = "dwait" /\ pc' = "idle" /\ result' = NoError)
        => ReportsAbsent(DescribeImages(d.id)) ]_vars

SnapshotCalls == { i \in DOMAIN calls : calls[i].call = "DeleteSnapshot" }
FailedSnapshots == { calls[i].arg : i \in { j \in SnapshotCalls : ~calls[j].ok } }
C3_SnapshotCascade ==
  (Returned("delete") /\ d.manage /\ Len(calls) >= 1 /\ calls[1].ok)
    => /\ { calls[i].arg : i \in SnapshotCalls }
            = { e.snapshot_id : e \in d.ebs } \ {""}
       /\ Cardinality(SnapshotCalls) = Cardinality({ e.snapshot_id : e \in d.ebs } \ {""})
       /\ FailedSnapshots # {} => result = PartialFailure(FailedSnapshots)
       /\ FailedSnapshots = {} => result.err \in {"none", "timeout", "unexpected", "refresh"}
       /\ (result # NoError) <=>
            (FailedSnapshots # {} \/ result.err \in {"timeout", "unexpected", "refresh"})

\* a deletion failed and a later entry was still attempted, with success
C3_Witness ==
  /\ Returned("delete") /\ d.manage /\ result.err = "partial"
  /\ \E i, j \in SnapshotCalls : i < j /\ ~calls[i].ok /\ calls[j].ok
  /\ Cardinality(result.ids) = 1

\* C4: once RegisterImage has succeeded inside Create the identifier is tracked
\* before any further remote call, and it still equals the remote id when Create
\* returns an error.
RegisterSucceeded == op = "create" /\ Len(calls) >= 1 /\ calls[1].ok
C4_IdRecordedAfterRegister ==
  /\ (RegisterSucceeded /\ Len(calls) = 1) => d.id = ImageId
  /\ (RegisterSucceeded /\ pc = "idle" /\ result # NoError) => d.id = ImageId

C4_Witness ==
  /\ RegisterSucceeded /\ pc = "idle" /\ d.id = ImageId
  /\ result.err \in {"timeout", "unexpected"}
  /\ image.state # "none"

\* C5: a configuration with an ebs entry that has a non-empty snapshot_id and
\* encrypted=true makes Create fail with the configuration error without any
\* remote call, and the identifier stays unset.
C5_ConfigErrorBeforeAnyCall ==
  (op = "create" /\ \E e \in cfg.ebs : e.snapshot_id # "" /\ e.encrypted)
    => /\ pc = "idle" /\ result = Error("config")
       /\ calls = <<>> /\ d.id = "" /\ image = NoImage

C5_Witness ==
  /\ Returned("create") /\ result = Error("config")
  /\ Cardinality(cfg.ebs) >= 2

\* the step is a describe issued by resourceAwsAmiRead itself
ReadDescribeStep == pc \in {"rdesc", "rfinal"} /\ CallStep

\* C6 as stated: whenever the image is still not found once the retry is over,
\* new resource or not, Read clears the identifier and returns no error.
C6_StillNotFoundIsAbsent ==
  [][ (ReadDescribeStep /\ DescribeImages(d.id).err = "NotFound"
         /\ (pc = "rfinal" \/ ~d.isNew))
        => (pc' = "idle" /\ d'.id = "" /\ result' = NoError) ]_vars

\* C6 amended: Read retries a not-found describe only for a new resource.  A
\* not-found answer for a resource that is not new, a successful answer with no
\* image, and a status of deregistered seen by Read's own describe make Read
\* clear the identifier and return no error; a new resource that is still
\* answered not-found once the retry budget is spent makes Read return an error
\* with the identifier kept.
C6_AbsentUnlessNewNotFound ==
  [][ ReadDescribeStep =>
        LET resp == DescribeImages(d.id) IN
          /\ ( \/ (pc = "rdesc" /\ ~d.isNew /\ resp.err = "NotFound")
               \/ (resp.err = "none" /\ Len(resp.images) # 1)
               \/ (resp.err = "none" /\ Len(resp.images) = 1
                     /\ resp.images[1].state = "deregistered") )
               => (pc' = "idle" /\ d'.id = "" /\ result' = NoError)
          /\ (pc' \in {"rdesc", "rfinal"}) <=>
               (pc = "rdesc" /\ d.isNew /\ resp.err = "NotFound")
          /\ (pc' \in {"rdesc", "rfinal"}) => d' = d
          /\ (pc = "rfinal" /\ resp.err = "NotFound")
               => (pc' = "idle" /\ result' = Error("describe") /\ d' = d /\ d.id # "") ]_vars

\* Read of a resource that is not new found no image and dropped the resource
C6_Witness ==
  /\ Returned("read") /\ d.id = "" /\ result = NoError /\ ~d.isNew
  /\ image.state = "none"
  /\ Len(calls) = 1

\* C7: in the available-wait of Create a probe answered with not-found is
\* transient: the wait goes on polling, or ends with the timeout error once its
\* budget is spent; it does not fail on that probe.
C7_NotFoundIsTransientInCreateWait ==
  [][ (pc = "cwait" /\ CallStep /\ d.isNew /\ DescribeImages(d.id).err = "NotFound")
        => (pc' = "cwait" \/ (pc' = "idle" /\ result'.err = "timeout")) ]_vars

\* the Read that ends an Update has not recorded anything yet
UpdateBeforeRead == op = "update" /\ pc \in {"utags", "umodify", "rdesc", "rfinal", "rwait"}
\* the Update is past the point where it issues the attribute-modify call
UpdatePastModify == op = "update" /\ pc \in {"rdesc", "rfinal", "rwait"}
OnlyTagsDiffer == d.description = cfg.description /\ d.tags # cfg.tags

C9_ReadIdempotent ==
  hist.twice => hist.last = hist.prev

\* the repeated Read recorded the attributes of an image that has tags
C9_Witness ==
  /\ hist.twice /\ Returned("read") /\ result = NoError
  /\ d.id = ImageId /\ d.tags # {} /\ d.arn = ImageArn(ImageId)
  /\ Len(calls) = 1

\* C10: when Read sees, by its own describe or in its own available-wait, a
\* status other than available, deregistered and pending, it returns an error
\* naming that status and leaves the identifier and every recorded attribute as
\* they were.
UnexpectedStatus(s) == s \notin {"available", "deregistered", "pending", "destroyed", ""}
C10_UnexpectedStatusIsError ==
  [][ /\ ReadDescribeStep =>
           LET resp == DescribeImages(d.id) IN
             (resp.err = "none" /\ Len(resp.images) = 1
                /\ UnexpectedStatus(resp.images[1].state))
               => /\ pc' = "idle" /\ d' = d
                  /\ result' = StatusError("state", resp.images[1].state)
      /\ (pc = "rwait" /\ CallStep) =>
           LET r == AMIStateRefreshFunc(DescribeImages(d.id)) IN
             (~r.err /\ UnexpectedStatus(r.state))
               => /\ pc' = "idle" /\ d' = d
                  /\ result'.err # "none" /\ result'.status = r.state ]_vars

C10_Witness ==
  /\ Returned("read") /\ result = StatusError("state", "failed")
  /\ d.id = ImageId /\ image.state = "failed"

\* the step is a probe of one of the two waits
WaitProbeStep == pc \in {"cwait", "rwait", "dwait"} /\ CallStep
\* status the refresh function reports for the probe of this step
ProbedStatus == AMIStateRefreshFunc(DescribeImages(d.id))

\* C11: in either wait a probe whose status is neither pending nor target ends
\* the wait on that probe with an error naming the status, and the operation
\* returns without another probe; in the available-wait of Create this holds for
\* failed and deregistered.
C11_UnexpectedStatusEndsWait ==
  [][ WaitProbeStep =>
        LET r == ProbedStatus IN
          /\ (pc \in {"cwait", "rwait"} /\ ~r.err /\ r.state \notin {"pending", "available"})
               => /\ pc' = "idle" /\ Len(calls') = Len(calls) + 1
                  /\ result' = StatusError("unexpected", r.state)
          /\ (pc = "dwait" /\ ~r.err
                /\ r.state \notin {"available", "pending", "failed", "destroyed"})
               => /\ pc' = "idle" /\ Len(calls') = Len(calls) + 1
                  /\ result' = StatusError("unexpected", r.state) ]_vars

\* Create failed on the first probe of its wait, which saw the image failed
C11_Witness ==
  /\ Returned("create") /\ result = StatusError("unexpected", "failed")
  /\ Cardinality({ i \in DOMAIN calls : calls[i].call = "DescribeImages" }) = 1
  /\ image.state = "failed"

\* C12: manage_ebs_snapshots is never changed by Create, Read, Update or Delete;
\* a resource created by resourceAwsAmiCreate never has it set and none of its
\* operations issues a delete-snapshot call; a delete-snapshot call is issued
\* only by a Delete of a resource that has the flag set.
C12_ManagedFlagImmutable ==
  [][ /\ d'.manage = d.manage
      /\ hist'.via = "register" => (~d'.manage /\ ~Issued("DeleteSnapshot")')
      /\ Issued("DeleteSnapshot")' => (d'.manage /\ op' = "delete") ]_vars

\* an image registered by aws_ami from a snapshot was deleted with success and
\* the snapshot is still there
C12_Witness ==
  /\ hist.via = "register" /\ Returned("delete") /\ result = NoError
  /\ \E e \in d.ebs : e.snapshot_id # "" /\ e.snapshot_id \in snaps
  /\ ~Issued("DeleteSnapshot")

\* C13: for every declared ebs entry the RegisterImage request carries iops iff
\* the declared iops is non-zero and volume_size iff the declared volume_size is
\* non-zero, each with the declared value.
C13_ZeroFieldsOmitted ==
  (op = "create" /\ Issued("RegisterImage")) =>
    \A e \in cfg.ebs :
      LET ms == { m \in req : m.HasEbs /\ m.DeviceName = e.device_name } IN
        /\ Cardinality(ms) = 1
        /\ \A m \in ms :
             /\ m.Iops = (IF e.iops = 0 THEN {} ELSE {e.iops})
             /\ m.VolumeSize = (IF e.volume_size = 0 THEN {} ELSE {e.volume_size})
             /\ 0 \notin m.Iops /\ 0 \notin m.VolumeSize

C13_Witness ==
  /\ op = "create" /\ Issued("RegisterImage")
  /\ \E e \in cfg.ebs : e.iops = 0 /\ e.volume_size # 0
  /\ \E e \in cfg.ebs : e.iops # 0 /\ e.volume_size = 0

DescribeCalls == { i \in DOMAIN calls : calls[i].call = "DescribeImages" }

\* C14: every wait ends: each probe either ends the wait or uses up one unit of
\* its budget; the probe on which the budget runs out while the status is still
\* one the wait waits through (pending for the available-wait; available,
\* pending or failed for the destroyed-wait) makes the operation return the
\* timeout error carrying that status; no call is issued once the operation has
\* returned.
C14_WaitsEndWithTimeout ==
  [][ /\ WaitProbeStep =>
           LET r == ProbedStatus
               waited == IF pc = "dwait" THEN {"available", "pending", "failed"}
                         ELSE {"pending"}
           IN /\ \/ pc' = pc /\ n' = n + 1 /\ n' < MaxPolls
                 \/ pc' # pc
              /\ (~r.err /\ r.state \in waited /\ n + 1 >= MaxPolls)
                   => (pc' = "idle" /\ result' = StatusError("timeout", r.state))
              /\ (pc' = "idle" /\ result'.err = "timeout")
                   => (~r.err /\ r.state \in waited /\ n + 1 >= MaxPolls)
      /\ pc = "idle" => ~CallStep ]_vars

\* Delete gave up waiting for an image that stayed failed
C14_Witness ==
  /\ Returned("delete") /\ result = StatusError("timeout", "failed")
  /\ Cardinality(DescribeCalls) = MaxPolls
  /\ image.state = "failed"

\* the order resourceAwsAmiCreate keeps among its calls, on a call log cs under
\* configuration c
CreateOrder(cs, c) ==
  /\ Len(cs) >= 1 => cs[1].call = "RegisterImage"
  /\ \A i \in 2..Len(cs) :
       /\ cs[i].call \in {"CreateTags", "DescribeImages"}
       /\ cs[i].call = "CreateTags" => (i = 2 /\ c.tags # {})
  /\ (Len(cs) >= 2 /\ c.tags # {}) => cs[2].call = "CreateTags"
  /\ \A i \in 1..(Len(cs) - 1) :
       cs[i].call \in {"RegisterImage", "CreateTags"} => cs[i].ok

\* C15: Create issues the create call first, then tag application exactly when
\* tags are declared, then the probes of the available-wait, then the describes
\* of the final Read; a failed call is the last one; the Read starts only from a
\* probe that saw the image available, and Create returns success only out of
\* that Read.
C15_CreateCallOrder ==
  [][ /\ op' = "create" => CreateOrder(calls', cfg')
      /\ (op = "create" /\ pc = "cwait" /\ pc' = "rdesc")
           => (~ProbedStatus.err /\ ProbedStatus.state = "available")
      /\ (op = "create" /\ pc = "cwait" /\ pc' \notin {"cwait", "rdesc"})
           => (pc' = "idle" /\ result' # NoError)
      /\ (op' = "create" /\ pc # "rdesc" /\ pc' = "rdesc") => pc = "cwait"
      /\ (op = "create" /\ pc # "idle" /\ pc' = "idle" /\ result' = NoError)
           => pc \in {"rdesc", "rfinal", "rwait"} ]_vars

\* a Create with tags that saw the image pending, then available, then read it
C15_Witness ==
  /\ Returned("create") /\ result = NoError /\ d.id = ImageId
  /\ Len(calls) >= 5 /\ calls[2] = Call("CreateTags", TRUE)
  /\ d.tags = cfg.tags

TagCallFailed ==
  \E i \in DOMAIN calls : calls[i].call \in {"CreateTags", "DeleteTags"} /\ ~calls[i].ok

\* C16: in an Update whose tag synchronization did not fail the attribute-modify
\* call is issued iff the newly declared description is non-empty; an Update
\* that returns success has issued a describe (its Read), also when it issued no
\* tag call and no attribute-modify call; a failed tag call makes Update return
\* before any attribute-modify or describe call.
C16_UpdateSequence ==
  /\ (op = "update" /\ Issued("ModifyImageAttribute")) => cfg.description # ""
  /\ (op = "update" /\ Issued("DescribeImages"))
       => (Issued("ModifyImageAttribute") <=> cfg.description # "")
  /\ (op = "update" /\ ~TagCallFailed /\ pc \in {"rdesc", "rfinal", "rwait"})
       => (Issued("ModifyImageAttribute") <=> cfg.description # "")
  /\ (Returned("update") /\ result = NoError) => Issued("DescribeImages")
  /\ (op = "update" /\ TagCallFailed)
       => /\ pc = "idle" /\ result = Error("tags")
          /\ ~Issued("ModifyImageAttribute") /\ ~Issued("DescribeImages")

\* an Update that changed nothing still read the image
C16_Witness ==
  /\ Returned("update") /\ result = NoError /\ d.id = ImageId
  /\ CallNames = {"DescribeImages"}

Attributes(dd) == <<dd.description, dd.tags, dd.ebs, dd.ephemeral, dd.arn>>

\* C17: the tracked attributes change only in a step of Read whose image record
\* has status available; a first describe that reports pending sends Read into
\* the available-wait with nothing recorded, and Read then records the image the
\* wait ended on.
C17_PopulateOnlyFromAvailable ==
  [][ /\ Attributes(d') # Attributes(d)
           => /\ pc \in {"rdesc", "rfinal", "rwait"} /\ CallStep
              /\ DescribeImages(d.id).err = "none"
              /\ image.state = "available"
              /\ d'.description = image.description
              /\ d'.tags = IgnoreAws(image.tags)
      /\ (ReadDescribeStep /\ DescribeImages(d.id).err = "none"
            /\ Len(DescribeImages(d.id).images) = 1 /\ image.state = "pending")
           => (pc' = "rwait" /\ d' = d)
      /\ (pc = "rwait" /\ pc' = "idle" /\ result' = NoError)
           => /\ image.state = "available"
              /\ Attributes(d') = Attributes(ReadPopulate(d, image)) ]_vars

\* a Read found the image pending, waited, and recorded it once available
C17_Witness ==
  /\ Returned("read") /\ result = NoError /\ d.id = ImageId
  /\ Len(calls) >= 2
  /\ image.state = "available" /\ d.arn = ImageArn(ImageId)

\* C18: when the deregistration call of Delete fails, Delete has returned that
\* error with the deregistration as its only call (no delete-snapshot call, no
\* probe of the destroyed-wait) and the tracked identifier is unchanged.
C18_DeregisterFailureReturns ==
  (op = "delete" /\ Len(calls) >= 1 /\ ~calls[1].ok)
    => /\ pc = "idle" /\ result = Error("deregister")
       /\ calls = <<Call("DeregisterImage", FALSE)>>
       /\ d.id = ImageId

\* the deregistration failed in a Delete that had snapshots to remove
C18_Witness ==
  /\ Returned("delete") /\ result = Error("deregister")
  /\ ManagesSnapshots(d) /\ SnapshotEntries(d) # {}
  /\ calls = <<Call("DeregisterImage", FALSE)>>

\* C19: after an Update that returned success the description the remote system
\* stores for the image equals the newly declared description, the empty one
\* included.
C19_UpdateConvergesDescription ==
  (Returned("update") /\ result = NoError /\ d.id # "" /\ image.state = "available")
    => image.description = cfg.description

\* C20: a probe of Delete's destroyed-wait that is answered with the image not
\* found, or with its record in status deregistered, ends the wait and Delete
\* returns success.
C20_DeregisteredEndsDestroyWait ==
  [][ (op = "delete" /\ pc = "dwait" /\ CallStep /\ ~ProbedStatus.err
         /\ ProbedStatus.state \in {"destroyed", "deregistered"})
        => (pc' = "idle" /\ result' = NoError) ]_vars

====
